---- MODULE Spec2Model ----
(***************************************************************************)
(* Display Tools integration (custom_components/display_tools).            *)
(*                                                                         *)
(* Python strings are sequences of one-character strings, so that split,   *)
(* strip, json.loads and json.dumps are computed character by character.   *)
(* Python values that json.loads or the service schema can hand to the     *)
(* handler are records [t, s, items]: t is the Python type, s the text of  *)
(* a str / int / float / bool, items the elements of a list or tuple.      *)
(* A dict is a sequence of <<key, value>> pairs in insertion order.        *)
(***************************************************************************)
EXTENDS Integers, Sequences, FiniteSets, TLC

VARIABLES store, sensor, cover_file, calls, req, pure

vars == <<store, sensor, cover_file, calls, req, pure>>

(***************************************************************************)
(* Strings                                                                 *)
(***************************************************************************)
Digits == {"0", "1", "2", "3", "4", "5", "6", "7", "8", "9"}


RECURSIVE Join(_, _)
\* sep.join(parts)
Join(parts, sep) ==
    IF parts = <<>> THEN <<>>
    ELSE IF Len(parts) = 1 THEN parts[1]
    ELSE parts[1] \o sep \o Join(Tail(parts), sep)

RECURSIVE Split(_, _)
\* str.split(sep) for a one-character separator: always at least one piece
Split(s, sep) ==
    IF \A i \in 1..Len(s) : s[i] # sep THEN <<s>>
    ELSE LET i == CHOOSE k \in 1..Len(s) :
                      s[k] = sep /\ \A m \in 1..(k - 1) : s[m] # sep
         IN  <<SubSeq(s, 1, i - 1)>> \o Split(SubSeq(s, i + 1, Len(s)), sep)

\* str.strip(): the only whitespace character of the model is the space
Strip(s) ==
    IF \A i \in 1..Len(s) : s[i] = " " THEN <<>>
    ELSE LET a == CHOOSE k \in 1..Len(s) :
                      s[k] # " " /\ \A m \in 1..(k - 1) : s[m] = " "
             b == CHOOSE k \in 1..Len(s) :
                      s[k] # " " /\ \A m \in (k + 1)..Len(s) : s[m] = " "
         IN  SubSeq(s, a, b)

RECURSIVE SelectNonEmptyStripped(_)
SelectNonEmptyStripped(pieces) ==
    IF pieces = <<>> THEN <<>>
    ELSE LET k == Strip(Head(pieces))
         IN  (IF k # <<>> THEN <<k>> ELSE <<>>)
                 \o SelectNonEmptyStripped(Tail(pieces))

\* variant: the "if k.strip()" filter is missing
CommaSplitKeepEmpty(s) ==
    [i \in 1..Len(Split(s, ",")) |-> Strip(Split(s, ",")[i])]

\* [k.strip() for k in s.split(',') if k.strip()]
CommaSplit(s) == SelectNonEmptyStripped(Split(s, ","))

(***************************************************************************)
(* Python values                                                           *)
(***************************************************************************)
PyNone == [t |-> "none", s |-> <<>>, items |-> <<>>]
PyStr(s) == [t |-> "str", s |-> s, items |-> <<>>]
PyInt(s) == [t |-> "int", s |-> s, items |-> <<>>]
PyFloat(s) == [t |-> "float", s |-> s, items |-> <<>>]
PyBool(b) ==
    [t |-> "bool",
     s |-> IF b THEN <<"T", "r", "u", "e">> ELSE <<"F", "a", "l", "s", "e">>,
     items |-> <<>>]
PyList(items) == [t |-> "list", s |-> <<>>, items |-> items]
PyTuple(items) == [t |-> "tuple", s |-> <<>>, items |-> items]

\* str(x) for the scalars of the model
PyToStr(x) ==
    IF x.t = "none" THEN <<"N", "o", "n", "e">> ELSE x.s

\* bool(x)
Truthy(x) ==
    CASE x.t = "none" -> FALSE
      [] x.t = "bool" -> x.s = <<"T", "r", "u", "e">>
      [] x.t \in {"int", "float"} ->
            \E i \in 1..Len(x.s) :
                /\ x.s[i] \in Digits \ {"0"}
                /\ \A m \in 1..(i - 1) : x.s[m] # "e"
      [] x.t = "str" -> x.s # <<>>
      [] OTHER -> x.items # <<>>

\* len(x) of a str, list or tuple
PyLen(x) == IF x.t = "str" THEN Len(x.s) ELSE Len(x.items)

(***************************************************************************)
(* json.loads over the characters  letters digits . , space [ ] "  e       *)
(* ('{', '\', '-', '+' and 'E' are outside the model's alphabet).           *)
(***************************************************************************)
JsonFail == [ok |-> FALSE, v |-> PyNone, n |-> 0]
JsonOk(v, n) == [ok |-> TRUE, v |-> v, n |-> n]

\* index of the first non-blank character at or after i (Len + 1 if none)
SkipWs(s, i) ==
    IF \A k \in i..Len(s) : s[k] = " " THEN Len(s) + 1
    ELSE CHOOSE k \in i..Len(s) :
             s[k] # " " /\ \A m \in i..(k - 1) : s[m] = " "

\* index after the maximal run of digits starting at i
DigitsEnd(s, i) ==
    IF \A k \in i..Len(s) : s[k] \in Digits THEN Len(s) + 1
    ELSE CHOOSE k \in i..Len(s) :
             s[k] \notin Digits /\ \A m \in i..(k - 1) : s[m] \in Digits

HasDigitAt(s, i) == i <= Len(s) /\ s[i] \in Digits

IsPrefixAt(s, i, w) ==
    i + Len(w) - 1 <= Len(s) /\ SubSeq(s, i, i + Len(w) - 1) = w

\* (0|[1-9]\d*)(\.\d+)?(e\d+)? starting at the digit s[i]
JsonNumber(s, i) ==
    LET a == IF s[i] = "0" THEN i + 1 ELSE DigitsEnd(s, i)
        hasFrac == a <= Len(s) /\ s[a] = "." /\ HasDigitAt(s, a + 1)
        b == IF hasFrac THEN DigitsEnd(s, a + 1) ELSE a
        hasExp == b <= Len(s) /\ s[b] = "e" /\ HasDigitAt(s, b + 1)
        c == IF hasExp THEN DigitsEnd(s, b + 1) ELSE b
        text == SubSeq(s, i, c - 1)
    IN  JsonOk(IF hasFrac \/ hasExp THEN PyFloat(text) ELSE PyInt(text), c)

RECURSIVE JsonValue(_, _)
RECURSIVE JsonArrayRest(_, _, _)

\* the scanner's value at index i: [ok, v, n] with n the index after it
JsonValue(s, i) ==
    IF i > Len(s) THEN JsonFail
    ELSE IF s[i] = "\"" THEN
        IF \A k \in (i + 1)..Len(s) : s[k] # "\"" THEN JsonFail
        ELSE LET j == CHOOSE k \in (i + 1)..Len(s) :
                          s[k] = "\"" /\ \A m \in (i + 1)..(k - 1) : s[m] # "\""
             IN  JsonOk(PyStr(SubSeq(s, i + 1, j - 1)), j + 1)
    ELSE IF s[i] = "[" THEN
        LET j == SkipWs(s, i + 1)
        IN  IF j <= Len(s) /\ s[j] = "]" THEN JsonOk(PyList(<<>>), j + 1)
            ELSE JsonArrayRest(s, j, <<>>)
    ELSE IF IsPrefixAt(s, i, <<"n", "u", "l", "l">>) THEN JsonOk(PyNone, i + 4)
    ELSE IF IsPrefixAt(s, i, <<"t", "r", "u", "e">>) THEN JsonOk(PyBool(TRUE), i + 4)
    ELSE IF IsPrefixAt(s, i, <<"f", "a", "l", "s", "e">>) THEN JsonOk(PyBool(FALSE), i + 5)
    ELSE IF s[i] \in Digits THEN JsonNumber(s, i)
    ELSE JsonFail

\* the elements of an array from index i on, acc being those already read
JsonArrayRest(s, i, acc) ==
    LET r == JsonValue(s, i)
    IN  IF ~r.ok THEN JsonFail
        ELSE LET j == SkipWs(s, r.n)
                 acc2 == Append(acc, r.v)
             IN  IF j > Len(s) THEN JsonFail
                 ELSE IF s[j] = "]" THEN JsonOk(PyList(acc2), j + 1)
                 ELSE IF s[j] = "," THEN JsonArrayRest(s, SkipWs(s, j + 1), acc2)
                 ELSE JsonFail

\* json.loads(s): ok = FALSE stands for json.JSONDecodeError
JsonLoads(s) ==
    LET r == JsonValue(s, SkipWs(s, 1))
    IN  IF r.ok /\ SkipWs(s, r.n) = Len(s) + 1 THEN r ELSE JsonFail

(***************************************************************************)
(* Key normalisation of handle_get_translations_esphome                    *)
(***************************************************************************)
\* try: json.loads(x)  except JSONDecodeError: comma split
JsonOrCommaSplit(text) ==
    LET r == JsonLoads(text)
    IN  IF r.ok THEN r.v
        ELSE PyList([i \in 1..Len(CommaSplit(text)) |-> PyStr(CommaSplit(text)[i])])

\* keys as computed from keys_raw = call.data.get("keys")
NormalizeKeys(keys_raw) ==
    IF keys_raw.t = "none" THEN PyNone
    ELSE IF keys_raw.t = "list" /\ Len(keys_raw.items) = 1 THEN
        LET single_item == keys_raw.items[1]
        IN  IF single_item.t = "str" THEN JsonOrCommaSplit(single_item.s)
            ELSE PyList(<<PyStr(PyToStr(single_item))>>)
    ELSE IF keys_raw.t = "list" THEN keys_raw
    ELSE IF keys_raw.t = "str" THEN JsonOrCommaSplit(keys_raw.s)
    ELSE IF keys_raw.t = "tuple" THEN PyList(keys_raw.items)
    ELSE PyList(<<PyStr(PyToStr(keys_raw))>>)

(***************************************************************************)
(* Dicts: sequences of <<key, value>> pairs, in insertion order             *)
(***************************************************************************)
DictKeys(d) == {d[i][1] : i \in 1..Len(d)}

DictHas(d, k) == \E i \in 1..Len(d) : d[i][1] = k

\* d[k] for a key of d
DictGet(d, k) == d[CHOOSE i \in 1..Len(d) : d[i][1] = k][2]

\* d[k] = v: an existing key keeps its position, a new one goes last
DictSet(d, k, v) ==
    IF DictHas(d, k)
    THEN [i \in 1..Len(d) |-> IF d[i][1] = k THEN <<k, v>> ELSE d[i]]
    ELSE Append(d, <<k, v>>)

(***************************************************************************)
(* _filter_translations_by_keys                                            *)
(***************************************************************************)
\* variant: a missing key falls back to the empty string
FilterFallbackEmpty(key) == <<>>

\* "filtered[key] = key  # Fallback to key itself"
FilterFallback(key) == key

RECURSIVE FilterLoop(_, _, _)
\* for key in keys: ...
FilterLoop(translations, keys, filtered) ==
    IF keys = <<>> THEN filtered
    ELSE LET key == Head(keys)
         IN  FilterLoop(translations, Tail(keys),
                 IF DictHas(translations, key)
                 THEN DictSet(filtered, key, DictGet(translations, key))
                 ELSE DictSet(filtered, key, FilterFallback(key)))

\* keys: a sequence of strings
filter_translations_by_keys(translations, keys) ==
    IF keys = <<>> THEN translations
    ELSE FilterLoop(translations, keys, <<>>)

(***************************************************************************)
(* Grouping by component (handle_get_translations_esphome)                 *)
(***************************************************************************)
COMPONENT == <<"c", "o", "m", "p", "o", "n", "e", "n", "t">>

\* variant: the third segment instead of the last
GroupFinalKeyThird(parts) == parts[IF Len(parts) >= 3 THEN 3 ELSE Len(parts)]

\* parts[-1]
GroupFinalKey(parts) == parts[Len(parts)]

\* "if len(parts) >= 2 and parts[0] == 'component'"
GroupMatches(parts) == Len(parts) >= 2 /\ parts[1] = COMPONENT

RECURSIVE GroupLoop(_, _)
\* for key, value in translations.items(): ...
GroupLoop(items, grouped_translations) ==
    IF items = <<>> THEN grouped_translations
    ELSE LET key == Head(items)[1]
             value == Head(items)[2]
             parts == Split(key, ".")
         IN  IF GroupMatches(parts)
             THEN LET component == parts[2]
                      final_key == GroupFinalKey(parts)
                      g0 == IF DictHas(grouped_translations, component)
                            THEN grouped_translations
                            ELSE DictSet(grouped_translations, component, <<>>)
                  IN  GroupLoop(Tail(items),
                          DictSet(g0, component,
                              DictSet(DictGet(g0, component), final_key, value)))
             ELSE GroupLoop(Tail(items), grouped_translations)

GroupTranslations(translations) == GroupLoop(translations, <<>>)

(***************************************************************************)
(* json.dumps(component_translations, ensure_ascii=False)                  *)
(***************************************************************************)
RECURSIVE JsonEscape(_)
JsonEscape(s) ==
    IF s = <<>> THEN <<>>
    ELSE (IF Head(s) \in {"\"", "\\"} THEN <<"\\", Head(s)>> ELSE <<Head(s)>>)
             \o JsonEscape(Tail(s))

JsonString(s) == <<"\"">> \o JsonEscape(s) \o <<"\"">>

\* a dict of str to str: {"k": "v", "k2": "v2"}
JsonDumps(d) ==
    <<"{">>
        \o Join([i \in 1..Len(d) |->
                    JsonString(d[i][1]) \o <<":", " ">> \o JsonString(d[i][2])],
                <<",", " ">>)
        \o <<"}">>

(***************************************************************************)
(* Inputs of the pure-function specification                               *)
(***************************************************************************)
MaxStrLen == 3
MaxEntries == 2
MaxKeys == 2

NormAlphabet == {"a", ",", " ", "1", "[", "]", "\""}

RECURSIVE StringsUpTo(_, _)
\* every string over alphabet of length at most n
StringsUpTo(alphabet, n) ==
    IF n = 0 THEN {<<>>}
    ELSE LET shorter == StringsUpTo(alphabet, n - 1)
         IN  shorter \cup {Append(s, c) : s \in shorter, c \in alphabet}

SampleStrings ==
    { <<"a", ",", "b", ",", "c">>,
      <<"a", ",", "b">>,
      <<" ", "a", " ", ",", " ", ",", "b", " ", "c", " ">>,
      <<"[", "\"", "x", "\"", ",", "\"", "y", "\"", "]">>,
      <<"[", "\"", "x", "\"", ",", " ", "1", "]">>,
      <<"[", "1", ",", "2", "]">>,
      <<"[", "\"", " ", "\"", "]">>,
      <<"[", "[", "1", "]", "]">>,
      <<"[", "n", "u", "l", "l", "]">>,
      <<"\"", "a", "b", "\"">>,
      <<"t", "r", "u", "e">>,
      <<"f", "a", "l", "s", "e">>,
      <<"n", "u", "l", "l">>,
      <<"1", ".", "5">>,
      <<"5">>, <<"0">> }

StrInputs == StringsUpTo(NormAlphabet, MaxStrLen) \cup SampleStrings

ListElemStrings == { <<"a", ",", "b">>, <<"c">>, <<>>, <<" ">>, <<"5">> }

ScalarInputs == { PyInt(<<"5">>), PyInt(<<"0">>), PyBool(TRUE), PyFloat(<<"1", ".", "5">>) }

\* the shapes call.data.get("keys") can take
KeysRawInputs ==
    {PyNone}
        \cup {PyStr(s) : s \in StrInputs}
        \cup {PyList(<<PyStr(s)>>) : s \in StrInputs}
        \cup {PyList(<<x>>) : x \in ScalarInputs \cup {PyNone}}
        \cup {PyList(<<>>)}
        \cup {PyList(<<PyStr(s1), PyStr(s2)>>) : s1, s2 \in ListElemStrings}
        \cup {PyList(<<PyStr(<<"a">>), PyNone>>),
              PyList(<<PyStr(<<"a">>), PyStr(<<"b">>), PyStr(<<"a">>)>>)}
        \cup {PyTuple(<<PyStr(<<"a">>), PyStr(<<"b">>)>>), PyTuple(<<>>)}
        \cup ScalarInputs

KeyV == <<"v">>
KeyW == <<"w">>
GroupKeyPool ==
    { Join(<<COMPONENT, KeyV, <<"s">>, <<"x">>>>, <<".">>),
      Join(<<COMPONENT, KeyV, <<"t">>, <<"x">>>>, <<".">>),
      Join(<<COMPONENT, KeyV, <<"y">>>>, <<".">>),
      Join(<<COMPONENT, KeyW, <<"x">>>>, <<".">>),
      Join(<<COMPONENT, KeyV>>, <<".">>),
      Join(<<COMPONENT, <<>>>>, <<".">>),
      COMPONENT,
      Join(<<<<"s">>, KeyV, <<"x">>>>, <<".">>),
      <<>> }

ValuePool == { <<"A">>, <<"B">> }

RECURSIVE MappingsUpTo(_)
\* every dict of at most n entries, in every insertion order
MappingsUpTo(n) ==
    IF n = 0 THEN {<<>>}
    ELSE LET smaller == MappingsUpTo(n - 1)
         IN  smaller \cup
                 {Append(d[1], <<d[2], d[3]>>) :
                     d \in {e \in smaller \X GroupKeyPool \X ValuePool :
                               Len(e[1]) = n - 1 /\ ~DictHas(e[1], e[2])}}

FilterKeyPool ==
    { Join(<<COMPONENT, KeyV, <<"s">>, <<"x">>>>, <<".">>),
      Join(<<COMPONENT, KeyW, <<"x">>>>, <<".">>),
      <<"z">> }

RECURSIVE KeyListsUpTo(_)
KeyListsUpTo(n) ==
    IF n = 0 THEN {<<>>}
    ELSE LET shorter == KeyListsUpTo(n - 1)
         IN  shorter \cup {Append(s, k) : s \in shorter, k \in FilterKeyPool}

(***************************************************************************)
(* const.py                                                                *)
(***************************************************************************)
TRANSLATION_CATEGORIES ==
    << <<"t", "i", "t", "l", "e">>, <<"s", "t", "a", "t", "e">>, <<"e", "n", "t", "i", "t", "y">>, <<"e", "n", "t", "i", "t", "y", "_", "c", "o", "m", "p", "o", "n", "e", "n", "t">>,
       <<"e", "x", "c", "e", "p", "t", "i", "o", "n", "s">>, <<"c", "o", "n", "f", "i", "g">>, <<"c", "o", "n", "f", "i", "g", "_", "s", "u", "b", "e", "n", "t", "r", "i", "e", "s">>,
       <<"c", "o", "n", "f", "i", "g", "_", "p", "a", "n", "e", "l">>, <<"o", "p", "t", "i", "o", "n", "s">>, <<"d", "e", "v", "i", "c", "e", "_", "a", "u", "t", "o", "m", "a", "t", "i", "o", "n">>,
       <<"m", "f", "a", "_", "s", "e", "t", "u", "p">>, <<"s", "y", "s", "t", "e", "m", "_", "h", "e", "a", "l", "t", "h">>, <<"a", "p", "p", "l", "i", "c", "a", "t", "i", "o", "n", "_", "c", "r", "e", "d", "e", "n", "t", "i", "a", "l", "s">>,
       <<"i", "s", "s", "u", "e", "s">>, <<"s", "e", "l", "e", "c", "t", "o", "r">>, <<"s", "e", "r", "v", "i", "c", "e", "s">> >>

\* size preset -> (width, height), in the order of the dict literal
COVER_SIZES ==
    << <<<<"s", "m", "a", "l", "l">>, <<120, 120>>>>, <<<<"l", "a", "r", "g", "e">>, <<160, 160>>>> >>

StrList(seq) == PyList([i \in 1..Len(seq) |-> PyStr(seq[i])])

\* list(COVER_SIZES.keys())
CoverSizeNames == [i \in 1..Len(COVER_SIZES) |-> COVER_SIZES[i][1]]

(***************************************************************************)
(* Decimal text of a natural number (translations_count and the like are   *)
(* kept as Python ints, whose text is what an attribute shows)             *)
(***************************************************************************)
DigitChar(d) ==
    CASE d = 0 -> "0" [] d = 1 -> "1" [] d = 2 -> "2" [] d = 3 -> "3"
      [] d = 4 -> "4" [] d = 5 -> "5" [] d = 6 -> "6" [] d = 7 -> "7"
      [] d = 8 -> "8" [] OTHER -> "9"

RECURSIVE IntToStr(_)
IntToStr(n) ==
    IF n < 10 THEN <<DigitChar(n)>>
    ELSE Append(IntToStr(n \div 10), DigitChar(n % 10))

PyIntOf(n) == PyInt(IntToStr(n))

(***************************************************************************)
(* The persisted record and the status record                              *)
(*                                                                         *)
(* store is the content of the single-record Store: a record (a dict with  *)
(* string keys), <<>> when nothing is persisted.  async_load() gives None  *)
(* for a missing file; both places that load ("async_load() or {}" and     *)
(* "if stored_data:") treat None as the empty dict.                        *)
(***************************************************************************)
EmptyDict == <<>>

\* stored_data.get(k, default)
GetOr(d, k, default) == IF k \in DOMAIN d THEN d[k] ELSE default

\* variant: the components of the record loaded are kept next to the new ones
StoredUpdateMergeGroups(stored_data, new) ==
    [new EXCEPT !.grouped_translations =
        new.grouped_translations
            \o SelectSeq(GetOr(stored_data, "grouped_translations", <<>>),
                         LAMBDA e : ~DictHas(new.grouped_translations, e[1]))]

\* variant: setdefault semantics, the entries already stored win
StoredUpdateKeepOld(stored_data, new) == stored_data @@ new

\* stored_data.update({...}) of the handler: the new entries win
StoredUpdate(stored_data, new) == new @@ stored_data

\* the state and attributes handed to hass.states.async_set
SensorOf(state, attributes) == [state |-> state, attributes |-> attributes]

\* hass.states.async_set(SENSOR_ENTITY_ID, ...): the status record, with the
\* function that set it
Published(by, s) == [state |-> s.state, attributes |-> s.attributes, by |-> by]

RECURSIVE AddComponentAttributes(_, _)
\* for component, component_translations in grouped_translations.items():
\*     attributes[component] = json.dumps(component_translations, ...)
AddComponentAttributes(attributes, grouped_translations) ==
    IF grouped_translations = <<>> THEN attributes
    ELSE AddComponentAttributes(
             DictSet(attributes, Head(grouped_translations)[1],
                     PyStr(JsonDumps(Head(grouped_translations)[2]))),
             Tail(grouped_translations))

\* async_setup_entry, "else" branch: nothing persisted
EmptySensor ==
    SensorOf(PyStr(<<"e", "m", "p", "t", "y">>),
        << <<<<"f", "r", "i", "e", "n", "d", "l", "y", "_", "n", "a", "m", "e">>, PyStr(<<"D", "i", "s", "p", "l", "a", "y", " ", "T", "o", "o", "l", "s">>)>>,
           <<<<"i", "c", "o", "n">>, PyStr(<<"m", "d", "i", ":", "m", "o", "n", "i", "t", "o", "r", "-", "d", "a", "s", "h", "b", "o", "a", "r", "d">>)>>,
           <<<<"a", "v", "a", "i", "l", "a", "b", "l", "e", "_", "c", "a", "t", "e", "g", "o", "r", "i", "e", "s">>, StrList(TRANSLATION_CATEGORIES)>>,
           <<<<"a", "v", "a", "i", "l", "a", "b", "l", "e", "_", "c", "o", "v", "e", "r", "_", "s", "i", "z", "e", "s">>, StrList(CoverSizeNames)>> >>)

\* lines 205-214: the attributes dict literal of the restore path
RestoreAttributes(stored_data) ==
    << <<<<"f", "r", "i", "e", "n", "d", "l", "y", "_", "n", "a", "m", "e">>, PyStr(<<"D", "i", "s", "p", "l", "a", "y", " ", "T", "o", "o", "l", "s">>)>>,
       <<<<"i", "c", "o", "n">>, PyStr(<<"m", "d", "i", ":", "m", "o", "n", "i", "t", "o", "r", "-", "d", "a", "s", "h", "b", "o", "a", "r", "d">>)>>,
       <<<<"l", "a", "n", "g", "u", "a", "g", "e">>, GetOr(stored_data, "language", PyStr(<<"u", "n", "k", "n", "o", "w", "n">>))>>,
       <<<<"c", "a", "t", "e", "g", "o", "r", "y">>, GetOr(stored_data, "category", PyStr(<<"u", "n", "k", "n", "o", "w", "n">>))>>,
       <<<<"t", "r", "a", "n", "s", "l", "a", "t", "i", "o", "n", "s", "_", "c", "o", "u", "n", "t">>, GetOr(stored_data, "translations_count", PyIntOf(0))>>,
       <<<<"a", "v", "a", "i", "l", "a", "b", "l", "e", "_", "c", "a", "t", "e", "g", "o", "r", "i", "e", "s">>, StrList(TRANSLATION_CATEGORIES)>>,
       <<<<"a", "v", "a", "i", "l", "a", "b", "l", "e", "_", "c", "o", "v", "e", "r", "_", "s", "i", "z", "e", "s">>, StrList(CoverSizeNames)>>,
       <<<<"r", "e", "q", "u", "e", "s", "t", "e", "d", "_", "k", "e", "y", "s", "_", "c", "o", "u", "n", "t">>,
         GetOr(stored_data, "requested_keys_count", PyIntOf(0))>> >>

\* variant: the restore forgets the per-component attributes
RestoredSensorNoGroups(stored_data) ==
    SensorOf(GetOr(stored_data, "language", PyStr(<<"e", "m", "p", "t", "y">>)),
             RestoreAttributes(stored_data))

\* async_setup_entry, "if stored_data:" branch
RestoredSensor(stored_data) ==
    SensorOf(GetOr(stored_data, "language", PyStr(<<"e", "m", "p", "t", "y">>)),
        AddComponentAttributes(RestoreAttributes(stored_data),
            GetOr(stored_data, "grouped_translations", EmptyDict)))

\* the status record async_setup_entry publishes for a loaded record
SetupSensor(stored_data) ==
    IF stored_data # EmptyDict THEN RestoredSensor(stored_data) ELSE EmptySensor

\* the status record of the "except Exception as e" branch of the handler
ErrorSensor(message) ==
    SensorOf(PyStr(<<"e", "r", "r", "o", "r">>),
        << <<<<"f", "r", "i", "e", "n", "d", "l", "y", "_", "n", "a", "m", "e">>, PyStr(<<"D", "i", "s", "p", "l", "a", "y", " ", "T", "o", "o", "l", "s">>)>>,
           <<<<"i", "c", "o", "n">>, PyStr(<<"m", "d", "i", ":", "m", "o", "n", "i", "t", "o", "r", "-", "o", "f", "f">>)>>,
           <<<<"e", "r", "r", "o", "r">>, PyStr(message)>>,
           <<<<"a", "v", "a", "i", "l", "a", "b", "l", "e", "_", "c", "a", "t", "e", "g", "o", "r", "i", "e", "s">>, StrList(TRANSLATION_CATEGORIES)>>,
           <<<<"a", "v", "a", "i", "l", "a", "b", "l", "e", "_", "c", "o", "v", "e", "r", "_", "s", "i", "z", "e", "s">>, StrList(CoverSizeNames)>> >>)

(***************************************************************************)
(* Exceptions: [raised, type, message]                                     *)
(***************************************************************************)
NoExc == [raised |-> FALSE, type |-> "", message |-> <<>>]
Exc(type, message) == [raised |-> TRUE, type |-> type, message |-> message]

\* variant: the clause catches ValueError only
ExceptValueErrorOnly(exc) == exc.type = "ValueError"

\* "except Exception": every exception type of the model derives from it
ExceptException(exc) == TRUE

\* type(x).__name__
TypeName(x) ==
    CASE x.t = "none" -> <<"N", "o", "n", "e", "T", "y", "p", "e">>
      [] x.t = "bool" -> <<"b", "o", "o", "l">>
      [] x.t = "int" -> <<"i", "n", "t">>
      [] x.t = "float" -> <<"f", "l", "o", "a", "t">>
      [] x.t = "str" -> <<"s", "t", "r">>
      [] x.t = "tuple" -> <<"t", "u", "p", "l", "e">>
      [] OTHER -> <<"l", "i", "s", "t">>

NotIterable(x) ==
    Exc("TypeError", <<"'">> \o TypeName(x) \o <<"'", " ", "o", "b", "j", "e", "c", "t", " ", "i", "s", " ", "n", "o", "t", " ", "i", "t", "e", "r", "a", "b", "l", "e">>)
Unhashable(x) ==
    Exc("TypeError", <<"u", "n", "h", "a", "s", "h", "a", "b", "l", "e", " ", "t", "y", "p", "e", ":", " ", "'">> \o TypeName(x) \o <<"'">>)
NoSplit(x) ==
    Exc("AttributeError",
        <<"'">> \o TypeName(x) \o <<"'", " ", "o", "b", "j", "e", "c", "t", " ", "h", "a", "s", " ", "n", "o", " ", "a", "t", "t", "r", "i", "b", "u", "t", "e", " ", "'", "s", "p", "l", "i", "t", "'">>)

(***************************************************************************)
(* _fetch_translations_for_category                                        *)
(***************************************************************************)
\* fetched = [failed, translations]: what async_get_translations did.
FetchError == Exc("HomeAssistantError", <<"t", "r", "a", "n", "s", "l", "a", "t", "i", "o", "n", "s", " ", "u", "n", "a", "v", "a", "i", "l", "a", "b", "l", "e">>)

\* variant: no try/except around the fetch
FetchPropagates(fetched) ==
    IF fetched.failed
    THEN [exc |-> FetchError, translations |-> EmptyDict]
    ELSE [exc |-> NoExc, translations |-> fetched.translations]

\* try: return await async_get_translations(...)  except Exception: return {}
fetch_translations_for_category(fetched) ==
    IF fetched.failed
    THEN [exc |-> NoExc, translations |-> EmptyDict]
    ELSE [exc |-> NoExc, translations |-> fetched.translations]

(***************************************************************************)
(* handle_get_translations_esphome: filter and group with the normalised   *)
(* keys, which are whatever Python value the normalisation produced        *)
(***************************************************************************)
\* the elements "for key in keys" visits
IterItems(keys) ==
    IF keys.t = "str" THEN [i \in 1..Len(keys.s) |-> PyStr(<<keys.s[i]>>)]
    ELSE keys.items

IsIterable(keys) == keys.t \in {"str", "list", "tuple"}
IsHashable(x) == x.t # "list"

\* [exc, translations, grouped_translations] of lines 348-364
FilterAndGroup(translations, keys) ==
    IF ~Truthy(keys)
    THEN [exc |-> NoExc, translations |-> translations,
          grouped_translations |-> GroupTranslations(translations)]
    ELSE IF ~IsIterable(keys)
    THEN [exc |-> NotIterable(keys), translations |-> EmptyDict,
          grouped_translations |-> EmptyDict]
    ELSE LET items == IterItems(keys)
             bad == {i \in 1..Len(items) : ~IsHashable(items[i])}
             nonstr == {i \in 1..Len(items) : items[i].t # "str"}
             First(S) == CHOOSE i \in S : \A j \in S : i <= j
         IN  IF bad # {}
             THEN [exc |-> Unhashable(items[First(bad)]),
                   translations |-> EmptyDict, grouped_translations |-> EmptyDict]
             ELSE IF nonstr # {}
             THEN \* the filtered dict has a key that is not a str: key.split fails
                  [exc |-> NoSplit(items[First(nonstr)]),
                   translations |-> EmptyDict, grouped_translations |-> EmptyDict]
             ELSE LET filtered ==
                          filter_translations_by_keys(translations,
                              [i \in 1..Len(items) |-> items[i].s])
                  IN  [exc |-> NoExc, translations |-> filtered,
                       grouped_translations |-> GroupTranslations(filtered)]

\* len(keys) if keys else 0
RequestedKeysCount(keys) == IF Truthy(keys) THEN PyLen(keys) ELSE 0

\* the dict passed to stored_data.update
NewStored(language, category, grouped_translations, translations, keys) ==
    [language |-> language,
     category |-> category,
     grouped_translations |-> grouped_translations,
     translations_count |-> PyIntOf(Len(translations)),
     requested_keys_count |-> PyIntOf(RequestedKeysCount(keys))]

\* lines 383-396: the attributes built after the save
UpdateAttributes(language, category, grouped_translations, translations, keys) ==
    AddComponentAttributes(
        << <<<<"f", "r", "i", "e", "n", "d", "l", "y", "_", "n", "a", "m", "e">>, PyStr(<<"D", "i", "s", "p", "l", "a", "y", " ", "T", "o", "o", "l", "s">>)>>,
           <<<<"i", "c", "o", "n">>, PyStr(<<"m", "d", "i", ":", "m", "o", "n", "i", "t", "o", "r", "-", "d", "a", "s", "h", "b", "o", "a", "r", "d">>)>>,
           <<<<"l", "a", "n", "g", "u", "a", "g", "e">>, language>>,
           <<<<"c", "a", "t", "e", "g", "o", "r", "y">>, category>>,
           <<<<"t", "r", "a", "n", "s", "l", "a", "t", "i", "o", "n", "s", "_", "c", "o", "u", "n", "t">>, PyIntOf(Len(translations))>>,
           <<<<"a", "v", "a", "i", "l", "a", "b", "l", "e", "_", "c", "a", "t", "e", "g", "o", "r", "i", "e", "s">>, StrList(TRANSLATION_CATEGORIES)>>,
           <<<<"a", "v", "a", "i", "l", "a", "b", "l", "e", "_", "c", "o", "v", "e", "r", "_", "s", "i", "z", "e", "s">>, StrList(CoverSizeNames)>>,
           <<<<"r", "e", "q", "u", "e", "s", "t", "e", "d", "_", "k", "e", "y", "s", "_", "c", "o", "u", "n", "t">>, PyIntOf(RequestedKeysCount(keys))>> >>,
        grouped_translations)

StoreLoadError == Exc("HomeAssistantError", <<"s", "t", "o", "r", "e", " ", "l", "o", "a", "d", " ", "f", "a", "i", "l", "e", "d">>)
StoreSaveError == Exc("HomeAssistantError", <<"s", "t", "o", "r", "e", " ", "s", "a", "v", "e", " ", "f", "a", "i", "l", "e", "d">>)

\* the longest state hass.states.async_set takes: it validates the state it
\* is given and raises InvalidStateError for a longer one
MAX_LENGTH_STATE_STATE == 255
ValidState(state) == Len(state.s) <= MAX_LENGTH_STATE_STATE
InvalidStateError(state) ==
    Exc("InvalidStateError",
        <<"I", "n", "v", "a", "l", "i", "d", " ", "s", "t", "a", "t", "e", " ", "w", "i", "t", "h", " ", "l", "e", "n", "g", "t", "h", " ">> \o IntToStr(Len(state.s))
            \o <<".", " ", "S", "t", "a", "t", "e", " ", "m", "a", "x", " ", "l", "e", "n", "g", "t", "h", " ", "i", "s", " ", "2", "5", "5", " ", "c", "h", "a", "r", "a", "c", "t", "e", "r", "s", ".">>)

CallIdle == [pc |-> "idle"]

\* the request of one of the other three services: idle, in flight or done
ReqIdle == [handler |-> "none", pc |-> "idle"]
ReqInFlight(r) == r.pc \notin {"idle", "done"}

InFlight(c) == c.pc \in {"fetch", "load", "save"}

\* the handler leaves through its except clause (lines 407-421), or the
\* exception escapes to the caller; c is the call's record at that point
CallFails(i, c, exc) ==
    IF ExceptException(exc)
    THEN /\ sensor' = Published("handle_get_translations_esphome",
                                ErrorSensor(exc.message))
         /\ calls' = [calls EXCEPT ![i] = [c EXCEPT
                         !.pc = "done", !.ok = FALSE, !.error = exc.message]]
    ELSE /\ sensor' = sensor
         /\ calls' = [calls EXCEPT ![i] = [c EXCEPT
                         !.pc = "done", !.ok = FALSE, !.escaped = TRUE,
                         !.error = exc.message]]

\* lines 301-346: read the call data, normalise the keys, start the fetch
CallStart(i, language, category, keys_raw) ==
    /\ ~InFlight(calls[i])
    /\ calls' = [calls EXCEPT ![i] =
                    [pc |-> "fetch", language |-> language, category |-> category,
                     keys_raw |-> keys_raw, keys |-> NormalizeKeys(keys_raw),
                     fetch_failed |-> FALSE, load_failed |-> FALSE,
                     save_failed |-> FALSE, translations |-> EmptyDict,
                     grouped_translations |-> EmptyDict, loaded |-> EmptyDict,
                     stored_data |-> EmptyDict, attributes |-> EmptyDict,
                     ok |-> FALSE, escaped |-> FALSE, error |-> <<>>]]
    /\ UNCHANGED <<store, sensor, cover_file, pure>>

\* lines 346-368: the fetch returns; filter, group, start the store load
CallFetched(i, fetched) ==
    /\ calls[i].pc = "fetch"
    /\ LET f == fetch_translations_for_category(fetched)
           r == IF f.exc.raised
                THEN [exc |-> f.exc, translations |-> EmptyDict,
                      grouped_translations |-> EmptyDict]
                ELSE FilterAndGroup(f.translations, calls[i].keys)
           c == [calls[i] EXCEPT !.fetch_failed = fetched.failed]
       IN  IF r.exc.raised
           THEN CallFails(i, c, r.exc)
           ELSE /\ calls' = [calls EXCEPT ![i] = [c EXCEPT
                                !.pc = "load",
                                !.translations = r.translations,
                                !.grouped_translations = r.grouped_translations]]
                /\ sensor' = sensor
    /\ UNCHANGED <<store, cover_file, req, pure>>

\* lines 368-380: the load returns; update the record, start the save
CallLoaded(i, load_fails) ==
    /\ calls[i].pc = "load"
    /\ IF load_fails
       THEN CallFails(i, [calls[i] EXCEPT !.load_failed = TRUE], StoreLoadError)
       ELSE /\ calls' = [calls EXCEPT ![i] = [calls[i] EXCEPT
                            !.pc = "save",
                            !.loaded = store,
                            !.stored_data =
                                StoredUpdate(store,
                                    NewStored(calls[i].language, calls[i].category,
                                              calls[i].grouped_translations,
                                              calls[i].translations,
                                              calls[i].keys))]]
            /\ sensor' = sensor
    /\ UNCHANGED <<store, cover_file, req, pure>>

\* lines 380-421: the save returns; build the attributes, publish; a failure
\* of the publish is caught by the except clause like any other
CallSaved(i, save_fails) ==
    /\ calls[i].pc = "save"
    /\ IF save_fails
       THEN /\ CallFails(i, [calls[i] EXCEPT !.save_failed = TRUE], StoreSaveError)
            /\ store' = store
       ELSE IF ~ValidState(calls[i].language)
       THEN \* the save has returned; async_set raises inside the same try
            /\ store' = calls[i].stored_data
            /\ CallFails(i, calls[i], InvalidStateError(calls[i].language))
       ELSE LET attributes ==
                    UpdateAttributes(calls[i].language, calls[i].category,
                                     calls[i].grouped_translations,
                                     calls[i].translations, calls[i].keys)
            IN  /\ store' = calls[i].stored_data
                /\ sensor' = Published("handle_get_translations_esphome",
                                       SensorOf(calls[i].language, attributes))
                /\ calls' = [calls EXCEPT ![i] = [calls[i] EXCEPT
                                !.pc = "done", !.ok = TRUE,
                                !.attributes = attributes]]
    /\ UNCHANGED <<cover_file, req, pure>>

\* Home Assistant restarts: handlers in flight are gone, async_setup_entry
\* loads the record and publishes the status record (lines 193-240)
Restart ==
    /\ sensor' = Published("async_setup_entry", SetupSensor(store))
    /\ calls' = [i \in DOMAIN calls |->
                    IF InFlight(calls[i]) THEN CallIdle ELSE calls[i]]
    /\ req' = IF ReqInFlight(req) THEN ReqIdle ELSE req
    /\ UNCHANGED <<store, cover_file, pure>>

(***************************************************************************)
(* handle_get_translations                                                 *)
(***************************************************************************)
\* the response of the try block
TranslationsResponse(language, category, translations) ==
    [language |-> language, category |-> category,
     translations |-> translations,
     total_translations |-> Len(translations), error |-> <<>>,
     has_error |-> FALSE]

\* the response of the except block
TranslationsErrorResponse(language, category, exc) ==
    [language |-> language, category |-> category,
     translations |-> EmptyDict, total_translations |-> 0,
     error |-> exc.message, has_error |-> TRUE]

\* lines 271-277: keys is absent or the list of strings the schema made
GetTranslationsStart(language, category, keys) ==
    /\ ~ReqInFlight(req)
    /\ req' = [handler |-> "get_translations", pc |-> "fetch",
               language |-> language, category |-> category, keys |-> keys]
    /\ UNCHANGED <<store, sensor, cover_file, pure>>

\* lines 277-297
GetTranslationsFetched(fetched) ==
    /\ req.handler = "get_translations" /\ req.pc = "fetch"
    /\ LET f == fetch_translations_for_category(fetched)
           translations ==
               IF Truthy(req.keys)
               THEN filter_translations_by_keys(f.translations,
                        [i \in 1..Len(req.keys.items) |-> req.keys.items[i].s])
               ELSE f.translations
       IN  req' = [handler |-> "get_translations", pc |-> "done",
                   fetch_failed |-> fetched.failed, keys |-> req.keys,
                   escaped |-> f.exc.raised /\ ~ExceptException(f.exc),
                   response |->
                       IF f.exc.raised
                       THEN TranslationsErrorResponse(req.language, req.category, f.exc)
                       ELSE TranslationsResponse(req.language, req.category,
                                                 translations)]
    /\ UNCHANGED <<store, sensor, cover_file, calls, pure>>

(***************************************************************************)
(* handle_get_raw_translations                                             *)
(***************************************************************************)
\* lines 244-251: the loop over TRANSLATION_CATEGORIES starts; backend says
\* for each category what async_get_translations will do
GetRawTranslationsStart(language, backend) ==
    /\ ~ReqInFlight(req)
    /\ req' = [handler |-> "get_raw_translations", pc |-> "fetch",
               language |-> language, backend |-> backend, index |-> 1,
               result |-> EmptyDict, any_failed |-> FALSE]
    /\ UNCHANGED <<store, sensor, cover_file, pure>>

\* lines 251-267: one fetch returns; next category, or the response
GetRawTranslationsFetched ==
    /\ req.handler = "get_raw_translations" /\ req.pc = "fetch"
    /\ LET category == TRANSLATION_CATEGORIES[req.index]
           fetched == req.backend[req.index]
           f == fetch_translations_for_category(fetched)
           result == IF ~f.exc.raised /\ f.translations # EmptyDict
                     THEN DictSet(req.result, category, f.translations)
                     ELSE req.result
           any_failed == req.any_failed \/ fetched.failed
       IN  IF f.exc.raised
           THEN req' = [handler |-> "get_raw_translations", pc |-> "done",
                        any_failed |-> any_failed,
                        escaped |-> ~ExceptException(f.exc),
                        backend |-> req.backend,
                        response |->
                            [language |-> req.language, categories |-> EmptyDict,
                             total_categories |-> 0,
                             error |-> f.exc.message, has_error |-> TRUE]]
           ELSE IF req.index < Len(TRANSLATION_CATEGORIES)
           THEN req' = [req EXCEPT !.index = req.index + 1, !.result = result,
                                   !.any_failed = any_failed]
           ELSE req' = [handler |-> "get_raw_translations", pc |-> "done",
                        any_failed |-> any_failed, escaped |-> FALSE,
                        backend |-> req.backend,
                        response |->
                            [language |-> req.language, categories |-> result,
                             total_categories |-> Len(result),
                             error |-> <<>>, has_error |-> FALSE]]
    /\ UNCHANGED <<store, sensor, cover_file, calls, pure>>

(***************************************************************************)
(* handle_save_media_cover / _download_and_process_cover                   *)
(***************************************************************************)
\* the cover.jpeg written by new_img.save: the canvas and the paste position
CoverImage(target_size, img) ==
    [size |-> target_size,
     x |-> (target_size[1] - img.width) \div 2,
     y |-> (target_size[2] - img.height) \div 2,
     width |-> img.width, height |-> img.height]

\* _download_and_process_cover returned success; the handler only logs it
CoverDone(success, failure) ==
    [handler |-> "save_media_cover", pc |-> "done", success |-> success,
     failure |-> failure, escaped |-> FALSE]

\* lines 116-141: look the entity up, take its picture, start the download.
\* entity is what hass.states.get returns: [found, entity_picture]
SaveMediaCoverStart(entity, size) ==
    /\ ~ReqInFlight(req)
    /\ IF ~entity.found
       THEN req' = CoverDone(FALSE, "entity not found")
       ELSE IF entity.entity_picture = <<>>
       THEN req' = CoverDone(FALSE, "no entity_picture")
       ELSE req' = [handler |-> "save_media_cover", pc |-> "get",
                    target_size |-> DictGet(COVER_SIZES, size)]
    /\ UNCHANGED <<store, sensor, cover_file, pure>>

\* lines 141-146: session.get answers (raised, or a status), start the read
SaveMediaCoverGot(answer) ==
    /\ req.handler = "save_media_cover" /\ req.pc = "get"
    /\ IF answer.raised
       THEN req' = CoverDone(FALSE, "download raised")
       ELSE IF answer.status # 200
       THEN req' = CoverDone(FALSE, "status")
       ELSE req' = [req EXCEPT !.pc = "read"]
    /\ UNCHANGED <<store, sensor, cover_file, calls, pure>>

\* lines 146-187: response.read returns; decode, centre, save.
\* body = [raised, decodable, width, height]
SaveMediaCoverRead(body) ==
    /\ req.handler = "save_media_cover" /\ req.pc = "read"
    /\ IF body.raised
       THEN /\ req' = CoverDone(FALSE, "read raised")
            /\ cover_file' = cover_file
       ELSE IF ~body.decodable
       THEN /\ req' = CoverDone(FALSE, "decode raised")
            /\ cover_file' = cover_file
       ELSE /\ req' = CoverDone(TRUE, "")
            /\ cover_file' = <<CoverImage(req.target_size, body)>>
    /\ UNCHANGED <<store, sensor, calls, pure>>

(***************************************************************************)
(* Specification of the pure functions: Init draws an input, one action    *)
(* per function applies it.                                                *)
(***************************************************************************)
PureIdle == [op |-> "none", done |-> TRUE]

PureInit ==
    /\ store = <<>>
    /\ sensor = PyNone
    /\ cover_file = <<>>
    /\ calls = <<>>
    /\ req = [handler |-> "none", pc |-> "idle"]
    /\ \/ \E k \in KeysRawInputs :
              pure = [op |-> "normalize", keys_raw |-> k, done |-> FALSE]
       \/ \E d \in MappingsUpTo(MaxEntries), ks \in KeyListsUpTo(MaxKeys) :
              pure = [op |-> "filter", translations |-> d, keys |-> ks,
                      done |-> FALSE]
       \/ \E d \in MappingsUpTo(MaxEntries) :
              pure = [op |-> "group", translations |-> d, done |-> FALSE]

ApplyNormalize ==
    /\ pure.op = "normalize" /\ ~pure.done
    /\ pure' = [op |-> "normalize", keys_raw |-> pure.keys_raw, done |-> TRUE,
                keys |-> NormalizeKeys(pure.keys_raw)]
    /\ UNCHANGED <<store, sensor, cover_file, calls, req>>

ApplyFilter ==
    /\ pure.op = "filter" /\ ~pure.done
    /\ pure' = [op |-> "filter", translations |-> pure.translations,
                keys |-> pure.keys, done |-> TRUE,
                filtered |-> filter_translations_by_keys(pure.translations, pure.keys)]
    /\ UNCHANGED <<store, sensor, cover_file, calls, req>>

ApplyGroup ==
    /\ pure.op = "group" /\ ~pure.done
    /\ pure' = [op |-> "group", translations |-> pure.translations, done |-> TRUE,
                grouped_translations |-> GroupTranslations(pure.translations)]
    /\ UNCHANGED <<store, sensor, cover_file, calls, req>>

PureNext == ApplyNormalize \/ ApplyFilter \/ ApplyGroup

SpecPure == PureInit /\ [][PureNext]_vars

(***************************************************************************)
(* Specification of overlapping get_translations_esphome calls             *)
(***************************************************************************)
MaxCalls == 2

LangEn == PyStr(<<"e", "n">>)
LangRu == PyStr(<<"r", "u">>)
Languages == {LangEn, LangRu}
Categories == {PyStr(<<"s", "t", "a", "t", "e">>)}

KeyVsx == Join(<<COMPONENT, KeyV, <<"s">>, <<"x">>>>, <<".">>)
KeyWx == Join(<<COMPONENT, KeyW, <<"x">>>>, <<".">>)

\* what async_get_translations can do
FetchOutcomes ==
    { [failed |-> TRUE, translations |-> EmptyDict],
      [failed |-> FALSE, translations |-> <<<<KeyVsx, <<"A">>>>, <<KeyWx, <<"B">>>>>>] }

RaceKeysRaw == { PyNone, PyList(<<PyStr(KeyWx)>>) }

Init ==
    /\ store = EmptyDict
    /\ sensor = Published("async_setup_entry", EmptySensor)
    /\ cover_file = <<>>
    /\ calls = [i \in 1..MaxCalls |-> CallIdle]
    /\ req = ReqIdle
    /\ pure = PureIdle

Next ==
    \/ \E i \in DOMAIN calls, language \in Languages, category \in Categories,
          keys_raw \in RaceKeysRaw :
           /\ calls[i].pc = "idle"
           /\ CallStart(i, language, category, keys_raw)
           /\ req' = req
    \/ \E i \in DOMAIN calls, fetched \in FetchOutcomes : CallFetched(i, fetched)
    \/ \E i \in DOMAIN calls, load_fails \in BOOLEAN : CallLoaded(i, load_fails)
    \/ \E i \in DOMAIN calls, save_fails \in BOOLEAN : CallSaved(i, save_fails)
    \/ Restart

Spec == Init /\ [][Next]_vars
(***************************************************************************)
(* Specification of the four services, one request at a time, with the     *)
(* keys shapes the schema of get_translations_esphome lets through         *)
(***************************************************************************)
\* vol.Any(vol.All(cv.ensure_list, [cv.string]), cv.string, list, None):
\* the handler gets no keys at all or a list
SchemaValidated(keys_raw) == keys_raw.t \in {"none", "list"}

ServiceKeysRaw ==
    {PyNone, PyList(<<>>)}
        \cup {PyList(<<PyStr(s)>>) : s \in SampleStrings \cup {KeyWx}}
        \cup {PyList(<<PyNone>>),
              PyList(<<PyStr(KeyVsx), PyStr(<<"z">>)>>),
              PyList(<<PyStr(<<"a", ",", "b">>), PyStr(<<"c">>)>>),
              PyList(<<PyStr(<<"a">>), PyStr(<<>>)>>),
              PyList(<<PyStr(<<"a">>), PyNone>>)}

\* vol.All(cv.ensure_list, [cv.string]) of get_translations
PlainKeys ==
    {PyNone, PyList(<<>>), PyList(<<PyStr(KeyWx)>>),
     PyList(<<PyStr(<<"z">>), PyStr(KeyVsx)>>)}

Fails == [failed |-> TRUE, translations |-> EmptyDict]
Gives(d) == [failed |-> FALSE, translations |-> d]

\* async_get_translations per category, for one get_raw_translations call
Backends ==
    { [i \in 1..Len(TRANSLATION_CATEGORIES) |-> Fails],
      [i \in 1..Len(TRANSLATION_CATEGORIES) |-> Gives(EmptyDict)],
      [i \in 1..Len(TRANSLATION_CATEGORIES) |->
          IF i = 2 THEN Gives(<<<<KeyVsx, <<"A">>>>>>) ELSE Fails],
      [i \in 1..Len(TRANSLATION_CATEGORIES) |->
          IF i % 2 = 0 THEN Gives(<<<<KeyWx, <<"B">>>>>>) ELSE Gives(EmptyDict)] }

Entities ==
    { [found |-> FALSE, entity_picture |-> <<>>],
      [found |-> TRUE, entity_picture |-> <<>>],
      [found |-> TRUE, entity_picture |-> <<"/", "a", "p", "i", "/", "p">>],
      [found |-> TRUE, entity_picture |-> <<"h", "t", "t", "p", ":", "/", "/", "h", "/", "p">>] }

GetAnswers ==
    { [raised |-> TRUE, status |-> 0], [raised |-> FALSE, status |-> 404],
      [raised |-> FALSE, status |-> 200] }

Bodies ==
    { [raised |-> TRUE, decodable |-> FALSE, width |-> 0, height |-> 0],
      [raised |-> FALSE, decodable |-> FALSE, width |-> 0, height |-> 0],
      [raised |-> FALSE, decodable |-> TRUE, width |-> 75, height |-> 100] }

Quiet == ~ReqInFlight(req) /\ \A i \in DOMAIN calls : ~InFlight(calls[i])

ServicesInit ==
    /\ store = EmptyDict
    /\ sensor = Published("async_setup_entry", EmptySensor)
    /\ cover_file = <<>>
    /\ calls = <<CallIdle>>
    /\ req = ReqIdle
    /\ pure = PureIdle

ServicesNext ==
    \/ \E language \in Languages, category \in Categories,
          keys_raw \in ServiceKeysRaw :
           /\ Quiet
           /\ CallStart(1, language, category, keys_raw)
           /\ req' = ReqIdle
    \/ \E fetched \in FetchOutcomes : CallFetched(1, fetched)
    \/ \E load_fails \in BOOLEAN : CallLoaded(1, load_fails)
    \/ \E save_fails \in BOOLEAN : CallSaved(1, save_fails)
    \/ \E language \in Languages, category \in Categories, keys \in PlainKeys :
           /\ Quiet
           /\ GetTranslationsStart(language, category, keys)
           /\ calls' = <<CallIdle>>
    \/ \E fetched \in FetchOutcomes : GetTranslationsFetched(fetched)
    \/ \E language \in Languages, backend \in Backends :
           /\ Quiet
           /\ GetRawTranslationsStart(language, backend)
           /\ calls' = <<CallIdle>>
    \/ GetRawTranslationsFetched
    \/ \E entity \in Entities, size \in {COVER_SIZES[k][1] : k \in 1..Len(COVER_SIZES)} :
           /\ Quiet
           /\ SaveMediaCoverStart(entity, size)
           /\ calls' = <<CallIdle>>
    \/ \E answer \in GetAnswers : SaveMediaCoverGot(answer)
    \/ \E body \in Bodies : SaveMediaCoverRead(body)

SpecServices == ServicesInit /\ [][ServicesNext]_vars

(***************************************************************************)
(* Specification of get_translations_esphome calls with the languages      *)
(* cv.string lets through: any text, of any length                         *)
(***************************************************************************)
\* a language that spells the state of the except clause
LangError == PyStr(<<"e", "r", "r", "o", "r">>)
\* a language one character longer than a state may be
LangLong == PyStr([k \in 1..(MAX_LENGTH_STATE_STATE + 1) |-> "x"])
FrameLanguages == {LangEn, LangError, LangLong}

FrameNext ==
    \/ \E i \in DOMAIN calls, language \in FrameLanguages,
          category \in Categories, keys_raw \in RaceKeysRaw :
           /\ calls[i].pc = "idle"
           /\ CallStart(i, language, category, keys_raw)
           /\ req' = req
    \/ \E i \in DOMAIN calls, fetched \in FetchOutcomes : CallFetched(i, fetched)
    \/ \E i \in DOMAIN calls, load_fails \in BOOLEAN : CallLoaded(i, load_fails)
    \/ \E i \in DOMAIN calls, save_fails \in BOOLEAN : CallSaved(i, save_fails)

SpecFrame == Init /\ [][FrameNext]_vars

(***************************************************************************)
(* Properties of the pure functions (SpecPure)                             *)
(***************************************************************************)
Range(seq) == {seq[i] : i \in 1..Len(seq)}

NoDuplicateKeys(d) == \A i, j \in 1..Len(d) : d[i][1] = d[j][1] => i = j

Normalized == pure.op = "normalize" /\ pure.done

\* C1: the normalised keys are the no-filter value or a list whose elements
\* are all strings, none of them empty after trimming.
C1_NormalizedKeysAreTrimmedStrings ==
    Normalized =>
        \/ pure.keys.t = "none"
        \/ /\ pure.keys.t = "list"
           /\ \A i \in 1..Len(pure.keys.items) :
                  /\ pure.keys.items[i].t = "str"
                  /\ Strip(pure.keys.items[i].s) # <<>>

\* C3: with keys, the filtered dict has exactly the requested keys, each
\* mapped to its translation if there is one and to its own text otherwise;
\* without keys the translations come back unchanged.
C3_FilterContract ==
    (pure.op = "filter" /\ pure.done) =>
        IF pure.keys = <<>>
        THEN pure.filtered = pure.translations
        ELSE /\ DictKeys(pure.filtered) = Range(pure.keys)
             /\ NoDuplicateKeys(pure.filtered)
             /\ \A i \in 1..Len(pure.filtered) :
                    LET k == pure.filtered[i][1]
                        v == pure.filtered[i][2]
                    IN  IF \E j \in 1..Len(pure.translations) :
                               pure.translations[j][1] = k
                        THEN <<k, v>> \in Range(pure.translations)
                        ELSE v = k

\* a filter call with one requested key present and one absent
C3_Witness ==
    /\ pure.op = "filter" /\ pure.done
    /\ \E k \in Range(pure.keys) : k \in DictKeys(pure.translations)
    /\ \E k \in Range(pure.keys) :
           k \notin DictKeys(pure.translations) /\ <<k, k>> \in Range(pure.filtered)

\* the key read by character positions: "component", a dot, then the rest
KeyHasComponentShape(k) ==
    Len(k) >= 10 /\ SubSeq(k, 1, 9) = COMPONENT /\ k[10] = "."

\* the text between the first dot and the second one (or the end)
KeySecondSegment(k) ==
    LET later == {i \in 11..Len(k) : k[i] = "."}
        stop == IF later = {} THEN Len(k) + 1
                ELSE CHOOSE i \in later : \A j \in later : i <= j
    IN  SubSeq(k, 11, stop - 1)

\* the text after the last dot
KeyLastSegment(k) ==
    LET dots == {i \in 1..Len(k) : k[i] = "."}
        last == CHOOSE i \in dots : \A j \in dots : j <= i
    IN  SubSeq(k, last + 1, Len(k))

\* the entries of translations that land on component c, final key f
GroupSources(translations, c, f) ==
    {j \in 1..Len(translations) :
        /\ KeyHasComponentShape(translations[j][1])
        /\ KeySecondSegment(translations[j][1]) = c
        /\ KeyLastSegment(translations[j][1]) = f}

\* C4: the grouped result has component c with final key f exactly when a
\* key "component.c[...].f" exists, with the value of the last such key in
\* mapping order; other keys contribute nothing.
C4_GroupContract ==
    (pure.op = "group" /\ pure.done) =>
        LET t == pure.translations
            g == pure.grouped_translations
            shaped == {j \in 1..Len(t) : KeyHasComponentShape(t[j][1])}
        IN  /\ NoDuplicateKeys(g)
            /\ \A a \in 1..Len(g) :
                   /\ NoDuplicateKeys(g[a][2])
                   /\ g[a][2] # <<>>
                   /\ \A b \in 1..Len(g[a][2]) :
                          LET src == GroupSources(t, g[a][1], g[a][2][b][1])
                          IN  /\ src # {}
                              /\ g[a][2][b][2] =
                                     t[CHOOSE j \in src : \A m \in src : m <= j][2]
            /\ \A j \in shaped :
                   \E a \in 1..Len(g) :
                       /\ g[a][1] = KeySecondSegment(t[j][1])
                       /\ KeyLastSegment(t[j][1]) \in DictKeys(g[a][2])

\* two different keys of one component collapse on one final key and the
\* value of the later one is the one kept
C4_Witness ==
    /\ pure.op = "group" /\ pure.done
    /\ \E i, j \in 1..Len(pure.translations) :
           /\ i < j
           /\ KeyHasComponentShape(pure.translations[i][1])
           /\ KeyHasComponentShape(pure.translations[j][1])
           /\ pure.translations[i][1] # pure.translations[j][1]
           /\ pure.translations[i][2] # pure.translations[j][2]
           /\ pure.grouped_translations =
                  << <<KeySecondSegment(pure.translations[j][1]),
                       << <<KeyLastSegment(pure.translations[j][1]),
                            pure.translations[j][2]>> >> >> >>

\* the comma-separated pieces of s, by the positions of its commas
PieceBounds(s) ==
    LET commas == {i \in 1..Len(s) : s[i] = ","}
        starts == {1} \cup {i + 1 : i \in commas}
    IN  {<<a, b>> \in starts \X (0..Len(s)) :
            /\ b >= a - 1
            /\ \A m \in a..b : s[m] # ","
            /\ (b = Len(s) \/ s[b + 1] = ",")}

\* a piece without its leading and trailing blanks, as index bounds
TrimBounds(s, p) ==
    LET solid == {m \in p[1]..p[2] : s[m] # " "}
    IN  <<CHOOSE m \in solid : \A n \in solid : m <= n,
          CHOOSE m \in solid : \A n \in solid : n <= m>>

KeptPieces(s) == {p \in PieceBounds(s) : \E m \in p[1]..p[2] : s[m] # " "}

\* the list of trimmed non-empty pieces of s, in order of position
IsCommaSplitOf(result, s) ==
    /\ Len(result) = Cardinality(KeptPieces(s))
    /\ \A p \in KeptPieces(s) :
           LET rank == Cardinality({q \in KeptPieces(s) : q[1] <= p[1]})
               tb == TrimBounds(s, p)
           IN  result[rank] = PyStr(SubSeq(s, tb[1], tb[2]))

ListABandC == PyList(<<PyStr(<<"a", ",", "b">>), PyStr(<<"c">>)>>)
ListABC == PyList(<<PyStr(<<"a", ",", "b", ",", "c">>)>>)

\* C5: a list of two or more elements is used unchanged; a one-element list
\* whose string is not JSON is split on commas, the pieces trimmed, the empty
\* ones dropped, the order kept.
C5_ListLengthAsymmetry ==
    Normalized =>
        /\ (pure.keys_raw.t = "list" /\ Len(pure.keys_raw.items) >= 2)
               => pure.keys = pure.keys_raw
        /\ (/\ pure.keys_raw.t = "list" /\ Len(pure.keys_raw.items) = 1
            /\ pure.keys_raw.items[1].t = "str"
            /\ ~JsonLoads(pure.keys_raw.items[1].s).ok)
               => /\ pure.keys.t = "list"
                  /\ IsCommaSplitOf(pure.keys.items, pure.keys_raw.items[1].s)
        /\ pure.keys_raw = ListABandC => pure.keys = ListABandC
        /\ pure.keys_raw = ListABC
               => pure.keys = PyList(<<PyStr(<<"a">>), PyStr(<<"b">>), PyStr(<<"c">>)>>)

\* a one-element list with blanks and an empty piece has been split
C5_Witness ==
    /\ Normalized
    /\ pure.keys_raw = PyList(<<PyStr(<<" ", "a", " ", ",", " ", ",", "b", " ", "c", " ">>)>>)
    /\ pure.keys = PyList(<<PyStr(<<"a">>), PyStr(<<"b", " ", "c">>)>>)

\* the single string of the keys input, when there is one
SingleString(keys_raw) ==
    IF keys_raw.t = "str" THEN keys_raw.s ELSE keys_raw.items[1].s

HasSingleString(keys_raw) ==
    \/ keys_raw.t = "str"
    \/ /\ keys_raw.t = "list" /\ Len(keys_raw.items) = 1
       /\ keys_raw.items[1].t = "str"

\* C6: a single string that parses as a JSON array gives that array's
\* elements in order, each one a string (coerced when it is not one).
C6_JsonArrayElementsAreStrings ==
    (/\ Normalized /\ HasSingleString(pure.keys_raw)
     /\ JsonLoads(SingleString(pure.keys_raw)).ok
     /\ JsonLoads(SingleString(pure.keys_raw)).v.t = "list")
        => LET parsed == JsonLoads(SingleString(pure.keys_raw)).v.items
           IN  /\ pure.keys.t = "list"
               /\ Len(pure.keys.items) = Len(parsed)
               /\ \A i \in 1..Len(parsed) :
                      /\ pure.keys.items[i].t = "str"
                      /\ parsed[i].t = "str" => pure.keys.items[i] = parsed[i]
                      /\ parsed[i].t = "int" => pure.keys.items[i].s = parsed[i].s

(***************************************************************************)
(* Properties of the services (SpecServices)                               *)
(***************************************************************************)
ErrorState == PyStr(<<"e", "r", "r", "o", "r">>)

CallDone(i) == calls[i].pc = "done"

\* C2: whatever keys the schema lets through, a call whose fetch, store load
\* and store save succeed ends with the status record showing the requested
\* language, not "error".
C2_AmbiguousKeysAreCoerced ==
    \A i \in DOMAIN calls :
        (/\ CallDone(i)
         /\ SchemaValidated(calls[i].keys_raw)
         /\ ~calls[i].fetch_failed /\ ~calls[i].load_failed
         /\ ~calls[i].save_failed)
            => /\ sensor.state = calls[i].language
               /\ sensor.state # ErrorState

ReqDone(handler) == req.handler = handler /\ req.pc = "done"

\* C8 as stated: no exception escapes, and every failure shows as an error
\* result (error text and empty mapping, state "error", or false).
C8_EveryFailureShowsAsError ==
    /\ \A i \in DOMAIN calls :
           CallDone(i) =>
               /\ ~calls[i].escaped
               /\ (calls[i].fetch_failed \/ calls[i].load_failed
                       \/ calls[i].save_failed \/ ~calls[i].ok)
                      => /\ sensor.state = ErrorState
                         /\ DictHas(sensor.attributes, <<"e", "r", "r", "o", "r">>)
    /\ ReqDone("get_translations") =>
           /\ ~req.escaped
           /\ req.fetch_failed =>
                  req.response.translations = EmptyDict /\ req.response.has_error
    /\ ReqDone("get_raw_translations") =>
           /\ ~req.escaped
           /\ req.any_failed =>
                  req.response.categories = EmptyDict /\ req.response.has_error
    /\ ReqDone("save_media_cover") =>
           /\ ~req.escaped
           /\ req.failure # "" => ~req.success

\* C8 as amended: no exception escapes; a failed fetch is taken as an empty
\* mapping without error text; a failed filter, grouping, store load or store
\* save puts the status record in state "error" with the error text; a failed
\* cover download returns false.
C8_FailuresAreContained ==
    /\ \A i \in DOMAIN calls :
           CallDone(i) =>
               /\ ~calls[i].escaped
               /\ (calls[i].load_failed \/ calls[i].save_failed) => ~calls[i].ok
               /\ ~calls[i].ok =>
                      /\ calls[i].error # <<>>
                      /\ sensor.state = ErrorState
                      /\ <<<<"e", "r", "r", "o", "r">>, PyStr(calls[i].error)>> \in Range(sensor.attributes)
               /\ calls[i].ok =>
                      /\ sensor.state = calls[i].language
                      /\ ~DictHas(sensor.attributes, <<"e", "r", "r", "o", "r">>)
                      /\ calls[i].fetch_failed =>
                             \A e \in Range(calls[i].translations) : e[2] = e[1]
    /\ ReqDone("get_translations") =>
           /\ ~req.escaped
           /\ ~req.response.has_error
           /\ req.response.total_translations = Len(req.response.translations)
           /\ req.fetch_failed =>
                  /\ \A e \in Range(req.response.translations) : e[2] = e[1]
                  /\ ~Truthy(req.keys) => req.response.translations = EmptyDict
    /\ ReqDone("get_raw_translations") =>
           /\ ~req.escaped
           /\ ~req.response.has_error
           /\ req.response.total_categories = Len(req.response.categories)
           /\ \A k \in 1..Len(TRANSLATION_CATEGORIES) :
                  DictHas(req.response.categories, TRANSLATION_CATEGORIES[k])
                      <=> (~req.backend[k].failed
                              /\ req.backend[k].translations # EmptyDict)
    /\ ReqDone("save_media_cover") =>
           /\ ~req.escaped
           /\ req.success <=> req.failure = ""
           /\ req.success => cover_file # <<>>

\* a call whose store save failed has left through the except clause
C8_Witness ==
    /\ CallDone(1) /\ calls[1].save_failed /\ ~calls[1].fetch_failed
    /\ ~calls[1].ok /\ ~calls[1].escaped
    /\ sensor.state = ErrorState
    /\ store # calls[1].stored_data

(***************************************************************************)
(* Properties of overlapping calls and restarts (Spec)                     *)
(***************************************************************************)
FixedAttributeNames ==
    { <<"f", "r", "i", "e", "n", "d", "l", "y", "_", "n", "a", "m", "e">>, <<"i", "c", "o", "n">>, <<"l", "a", "n", "g", "u", "a", "g", "e">>, <<"c", "a", "t", "e", "g", "o", "r", "y">>,
      <<"t", "r", "a", "n", "s", "l", "a", "t", "i", "o", "n", "s", "_", "c", "o", "u", "n", "t">>, <<"a", "v", "a", "i", "l", "a", "b", "l", "e", "_", "c", "a", "t", "e", "g", "o", "r", "i", "e", "s">>,
      <<"a", "v", "a", "i", "l", "a", "b", "l", "e", "_", "c", "o", "v", "e", "r", "_", "s", "i", "z", "e", "s">>, <<"r", "e", "q", "u", "e", "s", "t", "e", "d", "_", "k", "e", "y", "s", "_", "c", "o", "u", "n", "t">> }

\* one JSON attribute per component of grouped, and no other component
CarriesExactly(attributes, grouped) ==
    /\ NoDuplicateKeys(attributes)
    /\ DictKeys(attributes) = FixedAttributeNames \cup DictKeys(grouped)
    /\ \A a \in 1..Len(grouped) :
           <<grouped[a][1], PyStr(JsonDumps(grouped[a][2]))>> \in Range(attributes)

\* C7: when a call succeeds, the persisted record and the status record are
\* that call's: its language, its grouped result, one JSON attribute per
\* component of it and nothing of an earlier call.
C7_LatestSuccessfulCallOnly ==
    [][\A i \in DOMAIN calls :
           (calls[i].pc = "save" /\ calls'[i].pc = "done" /\ calls'[i].ok) =>
               /\ sensor'.state = calls[i].language
               /\ store'.language = calls[i].language
               /\ store'.grouped_translations = calls[i].grouped_translations
               /\ CarriesExactly(sensor'.attributes, calls[i].grouped_translations)]_vars

SucceededCall(i) == CallDone(i) /\ calls[i].ok

\* call j succeeded after call i (it loaded i's record) with fewer components:
\* the status record shows w as {"x": "B"} and has lost v
C7_Witness ==
    \E i, j \in DOMAIN calls :
        /\ i # j /\ SucceededCall(i) /\ SucceededCall(j)
        /\ calls[j].loaded = calls[i].stored_data
        /\ calls[i].language # calls[j].language
        /\ DictHas(calls[i].grouped_translations, KeyV)
        /\ store = calls[j].stored_data
        /\ sensor.by = "handle_get_translations_esphome"
        /\ sensor.state = calls[j].language
        /\ ~DictHas(sensor.attributes, KeyV)
        /\ <<KeyW, PyStr(<<"{", "\"", "x", "\"", ":", " ", "\"", "B", "\"", "}">>)>> \in Range(sensor.attributes)

AllCallsSucceeded ==
    \A i \in DOMAIN calls : calls[i].pc = "idle" \/ SucceededCall(i)

\* C9: with no call in flight and no failed call, the status record agrees
\* with the persisted record: same language, and the JSON encodings of the
\* persisted grouped_translations as its component attributes.
C9_QuiescentStatusAgreesWithStore ==
    (AllCallsSucceeded /\ store # EmptyDict) =>
        /\ sensor.state = store.language
        /\ CarriesExactly(sensor.attributes, store.grouped_translations)

\* two calls with different data that both loaded before either saved
C9_Witness ==
    /\ AllCallsSucceeded
    /\ \E i, j \in DOMAIN calls :
           /\ i # j /\ SucceededCall(i) /\ SucceededCall(j)
           /\ calls[i].loaded = EmptyDict /\ calls[j].loaded = EmptyDict
           /\ calls[i].language # calls[j].language
           /\ calls[i].grouped_translations # calls[j].grouped_translations
           /\ store = calls[i].stored_data
           /\ sensor.by = "handle_get_translations_esphome"
           /\ sensor.state = calls[i].language

\* C10: async_setup_entry publishes, for the record a successful call
\* persisted, the state and attributes that call published; with nothing
\* persisted, "empty" and no component attribute.
C10_RestartRoundTrip ==
    [][Restart =>
           /\ store = EmptyDict =>
                  /\ sensor'.state = PyStr(<<"e", "m", "p", "t", "y">>)
                  /\ DictKeys(sensor'.attributes) =
                         { <<"f", "r", "i", "e", "n", "d", "l", "y", "_", "n", "a", "m", "e">>, <<"i", "c", "o", "n">>,
                           <<"a", "v", "a", "i", "l", "a", "b", "l", "e", "_", "c", "a", "t", "e", "g", "o", "r", "i", "e", "s">>, <<"a", "v", "a", "i", "l", "a", "b", "l", "e", "_", "c", "o", "v", "e", "r", "_", "s", "i", "z", "e", "s">> }
           /\ \A i \in DOMAIN calls :
                  (SucceededCall(i) /\ calls[i].stored_data = store) =>
                      /\ sensor'.state = calls[i].language
                      /\ Len(sensor'.attributes) = Len(calls[i].attributes)
                      /\ Range(sensor'.attributes) = Range(calls[i].attributes)]_vars

\* the status record was set by async_setup_entry from the record of a
\* successful call with a component attribute
C10_Witness ==
    /\ sensor.by = "async_setup_entry"
    /\ \E i \in DOMAIN calls :
           /\ SucceededCall(i) /\ calls[i].stored_data = store
           /\ store # EmptyDict
           /\ sensor.state = calls[i].language
           /\ Range(sensor.attributes) = Range(calls[i].attributes)
           /\ DictHas(sensor.attributes, KeyW)

(***************************************************************************)
(* Properties of the persisted record (SpecFrame)                          *)
(***************************************************************************)
\* the step in which call i returns
CallEnds(i) == InFlight(calls[i]) /\ calls'[i].pc = "done"

\* C11: a call that ends with the status record in state "error" leaves the
\* persisted record as it was, and the persisted record changes only when a
\* call ends without error, to the snapshot of that call.
C11_ErrorCallLeavesStoreAlone ==
    [][/\ \A i \in DOMAIN calls :
              (CallEnds(i) /\ sensor'.state = ErrorState) => store' = store
       /\ store' # store =>
              \E i \in DOMAIN calls :
                  /\ CallEnds(i)
                  /\ sensor'.state # ErrorState
                  /\ store' = calls'[i].stored_data]_vars

====
